---- MODULE Spec2Model ----
(***************************************************************************)
(* rtsp_server.py: an RTSP server with three endpoints (/cam0, /cam1,      *)
(* /restream).  The script body (RTSPServer.__init__ followed by the       *)
(* __main__ block) is a straight line of statements; it is modelled as the *)
(* statement list Program, run by one action per kind of statement.  The   *)
(* factory callback do_create_element is invoked by the RTSP library while *)
(* the main loop runs.  SIGINT (KeyboardInterrupt) may arrive at any       *)
(* statement; only the one raised out of loop.run() is caught.             *)
(***************************************************************************)
EXTENDS Naturals, Sequences, FiniteSets

\* Bound on the number of do_create_element calls explored.
MaxCalls == 3

VARIABLES
    pc,         \* index into Program of the next statement (Len+1: script ended)
    exc,        \* uncaught exception that terminated the process ("" if none)
    server,     \* the GstRtspServer.RTSPServer object
    mounts,     \* the server's mount points: path -> factory
    factories,  \* the MyRTSPMediaFactory objects: name -> [launch, shared]
    loop,       \* the GLib.MainLoop object
    stdout,     \* lines printed so far
    parsed,     \* descriptors handed to Gst.parse_launch so far
    calls,      \* number of do_create_element calls so far
    lastCall,   \* the most recent do_create_element call and its result
    sigint      \* number of interrupts delivered

vars == <<pc, exc, server, mounts, factories, loop, stdout, parsed, calls,
          lastCall, sigint>>

----------------------------------------------------------------------------
(* The three pipeline descriptors, as written in the source.               *)

pipeline_cam0 == "libcamerasrc camera-name=/base/axi/pcie@1000120000/rp1/i2c@88000/imx477@1a ! videoconvert ! video/x-raw,format=I420 ! videoscale ! video/x-raw,width=1280,height=720,framerate=30/1 ! videoflip video-direction=2 ! queue ! x264enc tune=zerolatency bitrate=2000 speed-preset=superfast ! video/x-h264,profile=baseline ! queue ! rtph264pay config-interval=1 name=pay0 pt=96"

pipeline_cam1 == "libcamerasrc camera-name=/base/axi/pcie@1000120000/rp1/i2c@80000/imx477@1a ! videoconvert ! video/x-raw,format=I420 ! videoscale ! video/x-raw,width=1280,height=720,framerate=30/1 ! videoflip video-direction=2 ! queue ! x264enc tune=zerolatency bitrate=2000 speed-preset=superfast ! video/x-h264,profile=baseline ! queue ! rtph264pay config-interval=1 name=pay0 pt=96"

pipeline_restream == "rtspsrc location=rtsp://192.168.144.25:8554/main.264 latency=100 ! rtph264depay ! h264parse ! queue ! rtph264pay config-interval=1 name=pay0 pt=96"

----------------------------------------------------------------------------
(* The script as a list of statements.  op: the call made; obj: the object *)
(* or property it is made on; arg / flag: its string / boolean argument;   *)
(* line: the source line.                                                  *)

Stmt(op, obj, arg, flag, line) ==
    [op |-> op, obj |-> obj, arg |-> arg, flag |-> flag, line |-> line]

ServerSetupPort554 ==
    << Stmt("RTSPServer", "server", "", FALSE, 35),
       Stmt("set_property", "service", "554", FALSE, 37),
       Stmt("set_property", "address", "0.0.0.0", FALSE, 39),
       Stmt("get_mount_points", "server", "", FALSE, 42) >>

ServerSetup ==
    << Stmt("RTSPServer", "server", "", FALSE, 35),
       Stmt("set_property", "service", "8554", FALSE, 37),
       Stmt("set_property", "address", "0.0.0.0", FALSE, 39),
       Stmt("get_mount_points", "server", "", FALSE, 42) >>

Cam0Block ==
    << Stmt("MyRTSPMediaFactory", "factory_cam0", "", FALSE, 63),
       Stmt("set_launch", "factory_cam0", pipeline_cam0, FALSE, 64),
       Stmt("set_shared", "factory_cam0", "", TRUE, 65),
       Stmt("add_factory", "factory_cam0", "/cam0", FALSE, 66),
       Stmt("print", "", "Stream for Camera 0 configured at rtsp://0.0.0.0:8554/cam0", FALSE, 67) >>

Cam1BlockSamePath ==
    << Stmt("MyRTSPMediaFactory", "factory_cam1", "", FALSE, 89),
       Stmt("set_launch", "factory_cam1", pipeline_cam1, FALSE, 90),
       Stmt("set_shared", "factory_cam1", "", TRUE, 91),
       Stmt("add_factory", "factory_cam1", "/cam0", FALSE, 92),
       Stmt("print", "", "Stream for Camera 1 configured at rtsp://0.0.0.0:8554/cam1", FALSE, 93) >>

Cam1Block ==
    << Stmt("MyRTSPMediaFactory", "factory_cam1", "", FALSE, 89),
       Stmt("set_launch", "factory_cam1", pipeline_cam1, FALSE, 90),
       Stmt("set_shared", "factory_cam1", "", TRUE, 91),
       Stmt("add_factory", "factory_cam1", "/cam1", FALSE, 92),
       Stmt("print", "", "Stream for Camera 1 configured at rtsp://0.0.0.0:8554/cam1", FALSE, 93) >>

RestreamBlockSharedLate ==
    << Stmt("MyRTSPMediaFactory", "factory_restream", "", FALSE, 112),
       Stmt("set_launch", "factory_restream", pipeline_restream, FALSE, 113),
       Stmt("add_factory", "factory_restream", "/restream", FALSE, 115),
       Stmt("set_shared", "factory_restream", "", TRUE, 114),
       Stmt("print", "", "Restream of rtsp://192.168.144.25:8554/main.264 configured at rtsp://0.0.0.0:8554/restream", FALSE, 116) >>

RestreamBlock ==
    << Stmt("MyRTSPMediaFactory", "factory_restream", "", FALSE, 112),
       Stmt("set_launch", "factory_restream", pipeline_restream, FALSE, 113),
       Stmt("set_shared", "factory_restream", "", TRUE, 114),
       Stmt("add_factory", "factory_restream", "/restream", FALSE, 115),
       Stmt("print", "", "Restream of rtsp://192.168.144.25:8554/main.264 configured at rtsp://0.0.0.0:8554/restream", FALSE, 116) >>

StartedText == "\nRTSP server started. Access streams from other devices using:"

AttachAndAnnounce ==
    << Stmt("attach", "server", "", FALSE, 121),
       Stmt("print", "", StartedText, FALSE, 122),
       Stmt("print", "", "  rtsp://YOUR_PI_IP:8554/cam0", FALSE, 123),
       Stmt("print", "", "  rtsp://YOUR_PI_IP:8554/cam1", FALSE, 124),
       Stmt("print", "", "  rtsp://YOUR_PI_IP:8554/restream", FALSE, 125) >>

MainBlock ==
    << Stmt("MainLoop", "loop", "", FALSE, 130),
       Stmt("run", "loop", "", FALSE, 132) >>

ProgramAttachEarly ==
    ServerSetup \o Cam0Block \o Cam1Block \o AttachAndAnnounce
        \o RestreamBlock \o MainBlock

Program ==
    ServerSetup \o Cam0Block \o Cam1Block \o RestreamBlock
        \o AttachAndAnnounce \o MainBlock

Ended == Len(Program) + 1

\* The statement the main thread is at (a dummy once the script has ended).
Cur == IF pc \in 1..Len(Program) THEN Program[pc] ELSE Stmt("end", "", "", FALSE, 136)

\* The main thread is about to execute a statement of kind op.
At(op) == exc = "" /\ ~loop.running /\ pc \in 1..Len(Program) /\ Cur.op = op

----------------------------------------------------------------------------
(* Values.                                                                 *)

NoUrl == [abspath |-> "", query |-> ""]

\* Requesting URLs: the three mount paths and one path nobody registered.
Paths == {"/cam0", "/cam1", "/restream", "/other"}
Urls == [abspath : Paths, query : {"", "user=a"}]

Line(text, url, launch) == [text |-> text, url |-> url, launch |-> launch]

SuccessText == "Successfully created pipeline for"
FailedText == "Failed to create pipeline for"
ErrorText == "ERROR: GStreamer pipeline creation failed for"
StoppingText == "\nStopping RTSP server."

None == [tag |-> "None", launch |-> ""]
Pipeline(desc) == [tag |-> "Gst.Pipeline", launch |-> desc]

\* What one call of the external parser can do.
ParseOutcomes == {"pipeline", "null", "GLib.Error"}
Oracles == [1..2 -> ParseOutcomes]

NoCall == [self |-> "", url |-> NoUrl, outcome |-> "", ret |-> None,
           raised |-> FALSE]

NoFactories == [f \in {} |-> [launch |-> "", shared |-> FALSE]]
NoMounts == [p \in {} |-> ""]

----------------------------------------------------------------------------
(* MyRTSPMediaFactory.do_create_element.                                   *)

\* self.get_launch(): the descriptor stored by set_launch.
get_launch(self) == factories[self].launch

\* Gst.parse_launch: the external parser.  Its outcome on a descriptor is
\* the environment's (grammar, installed plugins): a pipeline built from the
\* descriptor, an empty result, or a raised GLib.Error.
Gst_parse_launch(desc, outcome) ==
    CASE outcome = "pipeline"   -> [raised |-> FALSE, value |-> Pipeline(desc)]
      [] outcome = "null"       -> [raised |-> FALSE, value |-> None]
      [] outcome = "GLib.Error" -> [raised |-> TRUE, value |-> None]

\* Python truth value of the parser's result (the test "if pipeline:").
Truthy(value) == value # None

\* The result of a call: the value returned, whether an exception leaves the
\* method, the lines printed, the descriptors handed to the parser (one per
\* attempt) and the factory object after the call.

\* Variant without the except clause: the GLib.Error leaves the method.
do_create_element_NoExcept(self, url, oracle) ==
    LET r == Gst_parse_launch(get_launch(self), oracle[1]) IN
    IF r.raised
    THEN [ret |-> None, raised |-> TRUE, out |-> <<>>,
          parsed |-> <<get_launch(self)>>, self |-> factories[self]]
    ELSE [ret |-> r.value, raised |-> FALSE,
          out |-> << Line(IF Truthy(r.value) THEN SuccessText ELSE FailedText,
                          url, get_launch(self)) >>,
          parsed |-> <<get_launch(self)>>, self |-> factories[self]]

\* Variant without "return pipeline": the try block falls off its end.
do_create_element_NoReturn(self, url, oracle) ==
    LET r == Gst_parse_launch(get_launch(self), oracle[1]) IN
    [ret |-> None, raised |-> FALSE,
     out |-> << Line(IF r.raised THEN ErrorText
                     ELSE IF Truthy(r.value) THEN SuccessText ELSE FailedText,
                     url, get_launch(self)) >>,
     parsed |-> <<get_launch(self)>>, self |-> factories[self]]

\* Variant without the truth test: every result that raised nothing is
\* printed as a success.
do_create_element_NoTest(self, url, oracle) ==
    LET r == Gst_parse_launch(get_launch(self), oracle[1]) IN
    IF r.raised
    THEN [ret |-> None, raised |-> FALSE,
          out |-> << Line(ErrorText, url, get_launch(self)) >>,
          parsed |-> <<get_launch(self)>>, self |-> factories[self]]
    ELSE [ret |-> r.value, raised |-> FALSE,
          out |-> << Line(SuccessText, url, get_launch(self)) >>,
          parsed |-> <<get_launch(self)>>, self |-> factories[self]]

\* Variant that parses a second time after a GLib.Error.
do_create_element_Retry(self, url, oracle) ==
    LET r1 == Gst_parse_launch(get_launch(self), oracle[1])
        r2 == Gst_parse_launch(get_launch(self), oracle[2]) IN
    IF r1.raised
    THEN [ret |-> IF r2.raised THEN None ELSE r2.value, raised |-> FALSE,
          out |-> << Line(IF r2.raised THEN ErrorText
                          ELSE IF Truthy(r2.value) THEN SuccessText ELSE FailedText,
                          url, get_launch(self)) >>,
          parsed |-> <<get_launch(self), get_launch(self)>>,
          self |-> factories[self]]
    ELSE [ret |-> r1.value, raised |-> FALSE,
          out |-> << Line(IF Truthy(r1.value) THEN SuccessText ELSE FailedText,
                          url, get_launch(self)) >>,
          parsed |-> <<get_launch(self)>>, self |-> factories[self]]

do_create_element(self, url, oracle) ==
    LET r == Gst_parse_launch(get_launch(self), oracle[1]) IN   \* line 17
    IF r.raised
    THEN \* except GLib.Error (lines 24-27)
         [ret |-> None, raised |-> FALSE,
          out |-> << Line(ErrorText, url, get_launch(self)) >>,
          parsed |-> <<get_launch(self)>>, self |-> factories[self]]
    ELSE IF Truthy(r.value)
    THEN \* lines 18-19, 23
         [ret |-> r.value, raised |-> FALSE,
          out |-> << Line(SuccessText, url, get_launch(self)) >>,
          parsed |-> <<get_launch(self)>>, self |-> factories[self]]
    ELSE \* lines 20-23
         [ret |-> r.value, raised |-> FALSE,
          out |-> << Line(FailedText, url, get_launch(self)) >>,
          parsed |-> <<get_launch(self)>>, self |-> factories[self]]

----------------------------------------------------------------------------
(* State after the interpreter has started, before RTSPServer() runs.      *)

Init ==
    /\ pc = 1
    /\ exc = ""
    /\ server = [created |-> FALSE, service |-> "", address |-> "",
                 attached |-> "no"]
    /\ mounts = NoMounts
    /\ factories = NoFactories
    /\ loop = [created |-> FALSE, running |-> FALSE, quitCalls |-> 0]
    /\ stdout = <<>>
    /\ parsed = <<>>
    /\ calls = 0
    /\ lastCall = NoCall
    /\ sigint = 0

----------------------------------------------------------------------------
(* RTSPServer.__init__, statement by statement.                            *)

\* line 35: a new server object, nothing configured, no mount.
NewServer ==
    /\ At("RTSPServer")
    /\ server' = [created |-> TRUE, service |-> "unset", address |-> "unset",
                  attached |-> "no"]
    /\ mounts' = NoMounts
    /\ pc' = pc + 1
    /\ UNCHANGED <<exc, factories, loop, stdout, parsed, calls, lastCall, sigint>>

\* lines 37, 39: self.server.set_property(name, value).
SetProperty ==
    /\ At("set_property")
    /\ server.created
    /\ server' = [server EXCEPT ![Cur.obj] = Cur.arg]
    /\ pc' = pc + 1
    /\ UNCHANGED <<exc, mounts, factories, loop, stdout, parsed, calls, lastCall, sigint>>

\* line 42: mount_points = self.server.get_mount_points(), a reference to
\* the server's registry; nothing changes.
GetMountPoints ==
    /\ At("get_mount_points")
    /\ server.created
    /\ pc' = pc + 1
    /\ UNCHANGED <<exc, server, mounts, factories, loop, stdout, parsed, calls,
                   lastCall, sigint>>

\* lines 63, 89, 112: a new factory: no launch string, not shared.
NewFactory ==
    /\ At("MyRTSPMediaFactory")
    /\ factories' = [f \in DOMAIN factories \cup {Cur.obj} |->
                        IF f = Cur.obj THEN [launch |-> "", shared |-> FALSE]
                        ELSE factories[f]]
    /\ pc' = pc + 1
    /\ UNCHANGED <<exc, server, mounts, loop, stdout, parsed, calls, lastCall, sigint>>

\* lines 64, 90, 113: factory.set_launch(descriptor).
SetLaunch ==
    /\ At("set_launch")
    /\ Cur.obj \in DOMAIN factories
    /\ factories' = [factories EXCEPT ![Cur.obj].launch = Cur.arg]
    /\ pc' = pc + 1
    /\ UNCHANGED <<exc, server, mounts, loop, stdout, parsed, calls, lastCall, sigint>>

\* lines 65, 91, 114: factory.set_shared(flag).
SetShared ==
    /\ At("set_shared")
    /\ Cur.obj \in DOMAIN factories
    /\ factories' = [factories EXCEPT ![Cur.obj].shared = Cur.flag]
    /\ pc' = pc + 1
    /\ UNCHANGED <<exc, server, mounts, loop, stdout, parsed, calls, lastCall, sigint>>

\* lines 66, 92, 115: mount_points.add_factory(path, factory); a path
\* already mounted is remapped.
AddFactory ==
    /\ At("add_factory")
    /\ Cur.obj \in DOMAIN factories
    /\ mounts' = [p \in DOMAIN mounts \cup {Cur.arg} |->
                     IF p = Cur.arg THEN Cur.obj ELSE mounts[p]]
    /\ pc' = pc + 1
    /\ UNCHANGED <<exc, server, factories, loop, stdout, parsed, calls, lastCall, sigint>>

\* lines 67, 93, 116, 122-125: print(text).
PrintLine ==
    /\ At("print")
    /\ stdout' = Append(stdout, Line(Cur.arg, NoUrl, ""))
    /\ pc' = pc + 1
    /\ UNCHANGED <<exc, server, mounts, factories, loop, parsed, calls, lastCall, sigint>>

\* line 121: self.server.attach(None).  The bind may fail (port in use);
\* the result is not looked at and the script goes on either way.
Attach ==
    /\ At("attach")
    /\ server.created
    /\ \E result \in {"ok", "failed"} :
           server' = [server EXCEPT !.attached = result]
    /\ pc' = pc + 1
    /\ UNCHANGED <<exc, mounts, factories, loop, stdout, parsed, calls, lastCall, sigint>>

----------------------------------------------------------------------------
(* The __main__ block.                                                     *)

\* line 130: loop = GLib.MainLoop().
NewMainLoop ==
    /\ At("MainLoop")
    /\ loop' = [created |-> TRUE, running |-> FALSE, quitCalls |-> 0]
    /\ pc' = pc + 1
    /\ UNCHANGED <<exc, server, mounts, factories, stdout, parsed, calls, lastCall, sigint>>

\* line 132: loop.run() blocks; the main thread stays at this statement.
LoopRun ==
    /\ At("run")
    /\ loop.created
    /\ loop' = [loop EXCEPT !.running = TRUE]
    /\ UNCHANGED <<pc, exc, server, mounts, factories, stdout, parsed, calls,
                   lastCall, sigint>>

\* While the loop runs and the server is attached, the library accepts a
\* client request, looks the URL's path up in the mount points and calls
\* the factory's do_create_element (lines 10-27).
ClientRequest ==
    /\ exc = ""
    /\ loop.running
    /\ server.attached = "ok"
    /\ calls < MaxCalls
    /\ \E url \in Urls, oracle \in Oracles :
          /\ url.abspath \in DOMAIN mounts
          /\ LET self == mounts[url.abspath]
                 r == do_create_element(self, url, oracle) IN
             /\ stdout' = stdout \o r.out
             /\ parsed' = parsed \o r.parsed
             /\ factories' = [factories EXCEPT ![self] = r.self]
             /\ lastCall' = [self |-> self, url |-> url, outcome |-> oracle[1],
                             ret |-> r.ret, raised |-> r.raised]
    /\ calls' = calls + 1
    /\ UNCHANGED <<pc, exc, server, mounts, loop, sigint>>

\* Variant of the handler that prints nothing.
KeyboardInterruptInRun_Silent ==
    /\ exc = ""
    /\ loop.running
    /\ loop' = [loop EXCEPT !.running = FALSE, !.quitCalls = @ + 1]
    /\ pc' = Ended
    /\ sigint' = sigint + 1
    /\ UNCHANGED <<exc, server, mounts, factories, stdout, parsed, calls, lastCall>>

\* Variant of the handler that omits loop.quit().
KeyboardInterruptInRun_NoQuit ==
    /\ exc = ""
    /\ loop.running
    /\ stdout' = Append(stdout, Line(StoppingText, NoUrl, ""))
    /\ loop' = [loop EXCEPT !.running = FALSE]
    /\ pc' = Ended
    /\ sigint' = sigint + 1
    /\ UNCHANGED <<exc, server, mounts, factories, parsed, calls, lastCall>>

\* lines 131-136: SIGINT while loop.run() blocks.  KeyboardInterrupt leaves
\* run(), is caught, the message is printed, loop.quit() is called and the
\* script ends.
KeyboardInterruptInRun ==
    /\ exc = ""
    /\ loop.running
    /\ stdout' = Append(stdout, Line(StoppingText, NoUrl, ""))
    /\ loop' = [loop EXCEPT !.running = FALSE, !.quitCalls = @ + 1]
    /\ pc' = Ended
    /\ sigint' = sigint + 1
    /\ UNCHANGED <<exc, server, mounts, factories, parsed, calls, lastCall>>

\* lines 127-130 (and all of __init__, lines 30-125): SIGINT before
\* loop.run() is entered.  No try block encloses these statements: the
\* KeyboardInterrupt is uncaught and the process terminates where it is.
KeyboardInterruptUncaught ==
    /\ exc = ""
    /\ ~loop.running
    /\ pc \in 1..Len(Program)
    /\ exc' = "KeyboardInterrupt"
    /\ sigint' = sigint + 1
    /\ UNCHANGED <<pc, server, mounts, factories, loop, stdout, parsed, calls, lastCall>>

Next ==
    \/ NewServer
    \/ SetProperty
    \/ GetMountPoints
    \/ NewFactory
    \/ SetLaunch
    \/ SetShared
    \/ AddFactory
    \/ PrintLine
    \/ Attach
    \/ NewMainLoop
    \/ LoopRun
    \/ ClientRequest
    \/ KeyboardInterruptInRun
    \/ KeyboardInterruptUncaught

Spec == Init /\ [][Next]_vars

----------------------------------------------------------------------------
(* Derived notions used by the properties.                                 *)

\* The process lifecycle of the specification document.
lifecycle ==
    IF exc # "" \/ pc = Ended THEN "stopped"
    ELSE IF loop.running THEN "serving"
    ELSE "configuring"

\* A statement of kind op on obj has been executed by the main thread.
Executed(op, obj) ==
    \E i \in 1..Len(Program) :
        /\ Program[i].op = op
        /\ Program[i].obj = obj
        /\ (i < pc \/ (i = pc /\ op = "run" /\ exc = "" /\ loop.running))

\* Indices of the printed lines whose text is in texts.
LinesWith(texts) == {i \in 1..Len(stdout) : stdout[i].text \in texts}

IsFailureLine(l) == l.text \in {FailedText, ErrorText}

\* The registry and the descriptors the specification document names.
ExpectedMounts ==
    [p \in {"/cam0", "/cam1", "/restream"} |->
        CASE p = "/cam0" -> "factory_cam0"
          [] p = "/cam1" -> "factory_cam1"
          [] p = "/restream" -> "factory_restream"]

ExpectedLaunch(f) ==
    CASE f = "factory_cam0" -> pipeline_cam0
      [] f = "factory_cam1" -> pipeline_cam1
      [] f = "factory_restream" -> pipeline_restream

\* All three endpoints are registered, each with its descriptor and flag.
AllRegistered ==
    /\ mounts = ExpectedMounts
    /\ \A p \in DOMAIN mounts :
          /\ mounts[p] \in DOMAIN factories
          /\ factories[mounts[p]].launch = ExpectedLaunch(mounts[p])
          /\ factories[mounts[p]].shared = TRUE

\* A do_create_element call is made in this step.
Called == calls' = calls + 1

\* The step prints exactly one line, after the lines already printed.
PrintsOne ==
    /\ Len(stdout') = Len(stdout) + 1
    /\ SubSeq(stdout', 1, Len(stdout)) = stdout

LastLine == stdout[Len(stdout)]

----------------------------------------------------------------------------
(* Properties.                                                             *)

\* C1: when the parser raises a parse error on the stored descriptor, the
\* creation call returns None, no exception leaves the call, and exactly
\* one line is printed: the ERROR line carrying the requesting URL and the
\* factory's descriptor.
C1_ParseErrorCaught ==
    [][ (Called /\ lastCall'.outcome = "GLib.Error") =>
          /\ lastCall'.ret = None
          /\ ~lastCall'.raised
          /\ PrintsOne
          /\ stdout'[Len(stdout')] =
                Line(ErrorText, lastCall'.url, factories[lastCall'.self].launch)
          /\ lastCall'.url.abspath \in DOMAIN mounts
          /\ mounts[lastCall'.url.abspath] = lastCall'.self ]_vars

C1_Witness ==
    /\ calls > 0
    /\ lastCall.outcome = "GLib.Error"
    /\ lastCall.ret = None
    /\ lifecycle = "serving"
    /\ LastLine.text = ErrorText

\* C2: when the parser returns a pipeline, the creation call returns that
\* pipeline (not None) and prints exactly one line, the success line, and
\* no failure line.
C2_ValidDescriptor ==
    [][ (Called /\ lastCall'.outcome = "pipeline") =>
          /\ lastCall'.ret = Pipeline(factories[lastCall'.self].launch)
          /\ lastCall'.ret # None
          /\ ~lastCall'.raised
          /\ PrintsOne
          /\ stdout'[Len(stdout')] =
                Line(SuccessText, lastCall'.url, factories[lastCall'.self].launch)
          /\ ~IsFailureLine(stdout'[Len(stdout')]) ]_vars

C2_Witness ==
    /\ calls > 0
    /\ lastCall.outcome = "pipeline"
    /\ lastCall.ret = Pipeline(pipeline_restream)
    /\ lifecycle = "serving"
    /\ LastLine.text = SuccessText

\* C3: an interrupt while the loop runs takes the process from serving to
\* stopped in that one step, printing the shutdown message once and calling
\* loop.quit(); a process that ended this way has printed exactly one
\* shutdown message and made exactly one quit call.
C3_InterruptStops ==
    /\ [][ (lifecycle = "serving" /\ sigint' # sigint) =>
             /\ lifecycle' = "stopped"
             /\ pc' = Ended
             /\ ~loop'.running
             /\ stdout' = Append(stdout, Line(StoppingText, NoUrl, ""))
             /\ loop'.quitCalls = loop.quitCalls + 1 ]_vars
    /\ [](pc = Ended =>
             /\ Cardinality(LinesWith({StoppingText})) = 1
             /\ loop.quitCalls = 1
             /\ sigint = 1)

C3_Witness ==
    /\ pc = Ended
    /\ sigint = 1
    /\ calls > 0
    /\ LastLine.text = StoppingText

\* C4: once attach has been called, the mount points hold exactly the three
\* paths /cam0, /cam1 and /restream, each mapped to its own factory holding
\* that endpoint's descriptor, and stay so.
C4_MountRegistry ==
    server.attached # "no" =>
        /\ DOMAIN mounts = {"/cam0", "/cam1", "/restream"}
        /\ Cardinality(DOMAIN mounts) = 3
        /\ mounts = ExpectedMounts
        /\ \A p, q \in DOMAIN mounts : p # q => mounts[p] # mounts[q]
        /\ \A p \in DOMAIN mounts :
              factories[mounts[p]].launch = ExpectedLaunch(mounts[p])

C4_Witness ==
    /\ server.attached = "ok"
    /\ calls = MaxCalls
    /\ pc = Ended
    /\ mounts = ExpectedMounts

\* C5: once both properties have been set, the server's address is 0.0.0.0
\* and its service (port) is 8554 in every state, whatever requests,
\* factory calls or interrupts follow.
C5_ServerConfig ==
    (Executed("set_property", "service") /\ Executed("set_property", "address")) =>
        /\ server.address = "0.0.0.0"
        /\ server.service = "8554"

C5_Witness ==
    /\ Executed("set_property", "address")
    /\ calls > 0
    /\ sigint = 1
    /\ server.service = "8554"

\* C6 as stated: the lifecycle changes only by configuring -> serving and
\* serving -> stopped.
C6_Original ==
    [][ lifecycle' # lifecycle =>
          <<lifecycle, lifecycle'>> \in
              {<<"configuring", "serving">>, <<"serving", "stopped">>} ]_vars

\* C6 (amended): the lifecycle is one of configuring, serving, stopped and
\* only moves forward: configuring -> serving -> stopped, or configuring ->
\* stopped directly when an interrupt arrives before loop.run() (uncaught:
\* nothing printed, no quit call).  Serving is left only by an interrupt,
\* with one quit call; a creation call, failing or not, happens in serving
\* and stays in serving.
C6_LifecycleForward ==
    /\ [](lifecycle \in {"configuring", "serving", "stopped"})
    /\ [][ lifecycle' # lifecycle =>
             /\ <<lifecycle, lifecycle'>> \in
                   {<<"configuring", "serving">>, <<"serving", "stopped">>,
                    <<"configuring", "stopped">>}
             /\ (lifecycle = "configuring" /\ lifecycle' = "stopped") =>
                   /\ exc' = "KeyboardInterrupt"
                   /\ sigint' = sigint + 1
                   /\ stdout' = stdout
                   /\ loop' = loop
             /\ lifecycle = "serving" =>
                   /\ sigint' = sigint + 1
                   /\ loop'.quitCalls = loop.quitCalls + 1
                   /\ exc' = "" ]_vars
    /\ [][ Called => (lifecycle = "serving" /\ lifecycle' = "serving") ]_vars
    /\ [][ lifecycle = "stopped" => UNCHANGED vars ]_vars

C6_Witness ==
    /\ lifecycle = "stopped"
    /\ loop.quitCalls = 1
    /\ LinesWith({FailedText, ErrorText}) # {}

\* C7: every factory registered in the mount points has its shared flag
\* set, in every state.
C7_SharedFlag ==
    \A p \in DOMAIN mounts :
        /\ mounts[p] \in DOMAIN factories
        /\ factories[mounts[p]].shared = TRUE

C7_Witness ==
    /\ DOMAIN mounts = {"/cam0", "/cam1", "/restream"}
    /\ calls > 0
    /\ \A p \in DOMAIN mounts : factories[mounts[p]].shared

\* C8: every creation call prints exactly one line, on each of the three
\* parser outcomes; the call returns None exactly when that line is a
\* failure line; an empty parser result without an error prints the
\* "Failed" line with the URL and descriptor and returns None.
C8_OneLinePerCall ==
    [][ Called =>
          /\ PrintsOne
          /\ lastCall'.outcome \in ParseOutcomes
          /\ stdout'[Len(stdout')].text \in {SuccessText, FailedText, ErrorText}
          /\ stdout'[Len(stdout')].url = lastCall'.url
          /\ stdout'[Len(stdout')].launch = factories[lastCall'.self].launch
          /\ (lastCall'.ret = None <=> IsFailureLine(stdout'[Len(stdout')]))
          /\ lastCall'.outcome = "null" =>
                /\ stdout'[Len(stdout')].text = FailedText
                /\ lastCall'.ret = None ]_vars

C8_Witness ==
    /\ calls > 0
    /\ lastCall.outcome = "null"
    /\ lastCall.ret = None
    /\ lifecycle = "serving"
    /\ LastLine = Line(FailedText, lastCall.url, ExpectedLaunch(lastCall.self))

\* C9: a creation call hands the factory's descriptor to the parser exactly
\* once and changes neither the factories, the mount points, the server
\* configuration nor the lifecycle; its result depends only on the
\* descriptor and on what the parser does this time, so a failure leaves
\* no trace for later calls on the same or on other factories.
C9_CallFrame ==
    /\ [][ Called =>
             /\ Len(parsed') = Len(parsed) + 1
             /\ SubSeq(parsed', 1, Len(parsed)) = parsed
             /\ parsed'[Len(parsed')] = ExpectedLaunch(lastCall'.self)
             /\ factories' = factories
             /\ mounts' = mounts
             /\ server' = server
             /\ lifecycle' = lifecycle
             /\ pc' = pc
             /\ lastCall'.ret =
                   (IF lastCall'.outcome = "pipeline"
                    THEN Pipeline(ExpectedLaunch(lastCall'.self)) ELSE None) ]_vars
    /\ [](Len(parsed) = calls)

\* A parse error on /cam0, then a call on /cam1 and a later call on /cam0
\* that both succeed.
C9_Witness ==
    /\ calls = 3
    /\ stdout[Len(stdout) - 2].text = ErrorText
    /\ stdout[Len(stdout) - 2].url.abspath = "/cam0"
    /\ stdout[Len(stdout) - 1].text = SuccessText
    /\ stdout[Len(stdout) - 1].url.abspath = "/cam1"
    /\ LastLine.text = SuccessText
    /\ LastLine.url.abspath = "/cam0"
    /\ parsed = <<pipeline_cam0, pipeline_cam1, pipeline_cam0>>

\* C10: attach is called only after address and port are set and all three
\* endpoints are registered with descriptor and shared flag; the "started"
\* line is printed only after attach; a creation call is made only while
\* serving, with the server attached.
C10_AttachAfterRegistration ==
    /\ [](server.attached # "no" =>
             /\ server.address = "0.0.0.0"
             /\ server.service = "8554"
             /\ AllRegistered)
    /\ [](LinesWith({StartedText}) # {} => server.attached # "no")
    /\ [](calls > 0 => (server.attached = "ok" /\ AllRegistered
                        /\ lifecycle \in {"serving", "stopped"}))
    /\ [][ Called => (lifecycle = "serving" /\ AllRegistered) ]_vars

C10_Witness ==
    /\ server.attached = "ok"
    /\ LinesWith({StartedText}) # {}
    /\ AllRegistered
    /\ lifecycle = "configuring"
    /\ exc = ""

====
